---- MODULE Spec2Model ----
(***************************************************************************)
(* A model of scraper.py, the catalog crawler of Rahulrwt12/Scraper.       *)
(*                                                                         *)
(* Strings are sequences of one-character strings.  A path is a sequence   *)
(* of path components; a file is named by its directory, the stem of its   *)
(* name and its suffix ("_description.txt" or "_datasheet.pdf").  Stems    *)
(* are shorter than either suffix, so no file path equals a directory      *)
(* path.  Directory creation is taken to succeed; opening and writing a    *)
(* file may fail with an OSError, a request may fail with a                *)
(* RequestException.                                                       *)
(***************************************************************************)
EXTENDS Naturals, Sequences, FiniteSets, TLC

----------------------------------------------------------------------------
(* Bounds of the model *)

\* the category blocks, sub-category links and table rows of the site, all together
MaxItems == 4
\* length of the strings sanitize_name is applied to in SpecSan
MaxLen == 3
\* download_pdf calls of the harness of SpecDl
MaxCalls == 3

----------------------------------------------------------------------------
(* Strings and sanitize_name *)

Whitespace == {" ", "\t"}

\* the character class of the regular expression [\\/*?:"<>|]
Forbidden == {"\\", "/", "*", "?", ":", "\"", "<", ">", "|"}

Alphabet == Whitespace \cup Forbidden \cup {"a", "_"}

RECURSIVE LStrip(_)
LStrip(s) ==
    IF s = <<>> THEN s
    ELSE IF Head(s) \in Whitespace THEN LStrip(Tail(s)) ELSE s

RECURSIVE RStrip(_)
RStrip(s) ==
    IF s = <<>> THEN s
    ELSE IF s[Len(s)] \in Whitespace THEN RStrip(SubSeq(s, 1, Len(s) - 1)) ELSE s

\* str.strip()
Strip(s) == RStrip(LStrip(s))

\* a mutant of Repl: the character class lacks the vertical bar
Repl_NoBar(c) == IF c \in Forbidden \ {"|"} THEN "_" ELSE c

\* what re.sub puts in the place of one character
Repl(c) == IF c \in Forbidden THEN "_" ELSE c

\* re.sub(r'[\\/*?:"<>|]', "_", s)
ReSub(s) == [i \in 1..Len(s) |-> Repl(s[i])]

sanitize_name(name) == ReSub(Strip(name))

\* tag.get_text(strip=True) of a tag holding one text node
GetText(raw) == Strip(raw)

RECURSIVE StringsUpTo(_)
StringsUpTo(n) ==
    IF n = 0 THEN {<<>>}
    ELSE LET shorter == StringsUpTo(n - 1)
         IN  shorter \cup {Append(s, c) : s \in {t \in shorter : Len(t) = n - 1}, c \in Alphabet}

----------------------------------------------------------------------------
(* The file system *)

MAIN_FOLDER == <<"Advanced Energy">>

RootPath == <<MAIN_FOLDER>>

\* a mutant of Join: the name is joined to the output root
Join_Root(path, name) ==
    IF name \in {<<>>, <<".">>} THEN path
    ELSE IF name = <<".", ".">> THEN SubSeq(path, 1, Len(path) - 1)
    ELSE Append(SubSeq(path, 1, 1), name)

\* the directory os.path.join(path, name) names: the empty name and "." name
\* path itself, ".." names its parent
Join(path, name) ==
    IF name \in {<<>>, <<".">>} THEN path
    ELSE IF name = <<".", ".">> THEN SubSeq(path, 1, Len(path) - 1)
    ELSE Append(path, name)

\* os.makedirs(path, exist_ok=True): the directory and its missing ancestors
makedirs(ds, path) == ds \cup {SubSeq(path, 1, k) : k \in 1..Len(path)}

File(dir, stem, suffix) == [dir |-> dir, stem |-> stem, suffix |-> suffix]

\* os.path.exists(file_path)
exists(fs, f) == f \in DOMAIN fs

\* the file system after open(f, 'w') and the writes that follow it
WriteFile(fs, f, content) == [g \in DOMAIN fs \cup {f} |-> IF g = f THEN content ELSE fs[g]]

NoFile == File(<<>>, <<>>, "none")

\* a table row: its td[data-title=Product] (if any, with its text) and its
\* td[data-title=Datasheet]: "none" (no cell), "no_link" (a cell without a[href]), "link"
Row(hasProduct, product, datasheet) ==
    [hasProduct |-> hasProduct, product |-> product, datasheet |-> datasheet]

NoRow == Row(FALSE, <<>>, "none")

----------------------------------------------------------------------------
(* The texts of a heading or link: empty, ".", plain, and one that is changed *)

RawTexts == {<<>>, <<".">>, <<"a">>, <<"a", "/">>}

\* the texts of a Product cell: empty, blank, and two that sanitize alike
ProductTexts == {<<>>, <<" ">>, <<"a", "/">>, <<"a", ":">>}

Rows == {Row(FALSE, <<>>, d) : d \in {"none", "no_link", "link"}}
        \cup {Row(TRUE, t, d) : t \in ProductTexts, d \in {"none", "no_link", "link"}}

----------------------------------------------------------------------------
VARIABLES
    mode,       \* "main": a run of main(); "dl": calls of download_pdf; "san": sanitize_name
    pc,         \* where the control is
    dirs,       \* the directories that exist
    files,      \* the files that exist, with their contents
    inflight,   \* the requests sent and not yet answered
    nreq,       \* the requests sent so far
    completed,  \* the completion line has been printed
    crash,      \* the exception that left main(), or "none"
    failedAt,   \* the fatal checkpoint that stopped the run, or "none"
    bi,         \* the category block the loop is at
    li,         \* the link of the block the loop is at
    ri,         \* the row of the table the loop is at
    items,      \* the blocks, links and rows read so far
    catPath,    \* category_path
    subName,    \* sub_category_name
    subPath,    \* sub_category_path
    rowq,       \* the row last read had both cells, a name and a link with an href
    curFile,    \* file_path of the download_pdf call in progress
    ev,         \* the last thing the run did, with the place in the page it was for
    tree,       \* the category blocks and links read so far, and what became of each
    early,      \* the files whose last download failed before the body was streamed
    calls,      \* the harness calls made so far (SpecDl)
    arg, res, res2   \* sanitize_name's input, its result, and the result sanitized again

vars == <<mode, pc, dirs, files, inflight, nreq, completed, crash, failedAt,
          bi, li, ri, items, catPath, subName, subPath, rowq, curFile,
          ev, tree, early, calls, arg, res, res2>>

NoEvent == [kind |-> "none", b |-> 0, l |-> 0, r |-> 0]

Event(kind, b, l, r) == [kind |-> kind, b |-> b, l |-> l, r |-> r]

InitCommon ==
    /\ inflight = {}
    /\ nreq = 0
    /\ completed = FALSE
    /\ crash = "none"
    /\ failedAt = "none"
    /\ bi = 0 /\ li = 0 /\ ri = 0
    /\ items = 0
    /\ catPath = <<>>
    /\ subName = <<>>
    /\ subPath = <<>>
    /\ rowq = FALSE
    /\ curFile = NoFile
    /\ ev = NoEvent
    /\ tree = <<>>
    /\ early = {}
    /\ calls = 0
    /\ arg = <<>> /\ res = <<>> /\ res2 = <<>>

Init ==
    /\ mode = "main"
    /\ pc = "start"
    /\ dirs = {}
    /\ files = <<>>
    /\ InitCommon

----------------------------------------------------------------------------
(* Requests *)

\* session.get(...) is called: the request is out until it is answered
Send(what) ==
    /\ inflight' = inflight \cup {what}
    /\ nreq' = nreq + 1

\* session.get(...) returns or raises
Answered == inflight' = {}

----------------------------------------------------------------------------
(* main(): the way to the products page *)

\* a mutant of Checkpoint: the return is missing
Checkpoint_NoReturn(ok, cont) == cont

\* "if not ...: return" at a fatal checkpoint
Checkpoint(ok, cont) == IF ok THEN cont ELSE "aborted"

\* lines 60-66: the output root is made and the start page is asked for
Start ==
    /\ mode = "main" /\ pc = "start"
    /\ dirs' = makedirs(dirs, RootPath)
    /\ Send("start")
    /\ pc' = "await_home"
    /\ UNCHANGED <<mode, files, completed, crash, failedAt, bi, li, ri, items, catPath,
                   subName, subPath, rowq, curFile, ev, tree, early, calls, arg, res,
                   res2>>

\* lines 66-77: the start page arrives or not; the Products link is looked up
HomeResponse ==
    /\ pc = "await_home"
    /\ \E got \in {"error", "no_nav", "ok"} :
         LET next == Checkpoint(got = "ok", "await_products") IN
         /\ pc' = next
         /\ failedAt' = CASE got = "error"  -> "start_fetch"
                          [] got = "no_nav" -> "nav_link"
                          [] OTHER          -> "none"
         /\ IF next = "await_products"
            THEN /\ inflight' = {"products"}
                 /\ nreq' = nreq + 1
            ELSE /\ Answered
                 /\ nreq' = nreq
    /\ UNCHANGED <<mode, dirs, files, completed, crash, bi, li, ri, items, catPath,
                   subName, subPath, rowq, curFile, ev, tree, early, calls, arg, res,
                   res2>>

\* lines 77-88: the products page arrives or not; the portfolio container and
\* the category blocks are looked up
ProductsResponse ==
    /\ pc = "await_products"
    /\ Answered
    /\ \E got \in {"error", "no_container", "ok"} :
         LET next == Checkpoint(got = "ok", "block") IN
         /\ pc' = next
         /\ failedAt' = CASE got = "error"        -> "products_fetch"
                          [] got = "no_container" -> "container"
                          [] OTHER                -> "none"
         /\ bi' = IF next = "block" THEN 1 ELSE bi
    /\ UNCHANGED <<mode, dirs, files, nreq, completed, crash, li, ri, items, catPath,
                   subName, subPath, rowq, curFile, ev, tree, early, calls, arg, res,
                   res2>>

----------------------------------------------------------------------------
(* main(): the category blocks.  The blocks, links and rows of a page are   *)
(* read as the loops reach them: a loop may end at any element.             *)

Block(head, name) == [head |-> head, name |-> name, subs |-> <<>>]

Sub(name, dir, st) == [name |-> name, dir |-> dir, st |-> st]

\* the tree with one more link under its last block
AddSub(t, s) == [t EXCEPT ![Len(t)].subs = Append(@, s)]

\* the tree with the state of its last link set
SetSt(t, st) == [t EXCEPT ![Len(t)].subs = [@ EXCEPT ![Len(@)].st = st]]

LastSt(t) == LET ss == t[Len(t)].subs IN ss[Len(ss)].st

\* a mutant of NextLink: the loop takes the same link again
NextLink_Same(i) == i

\* the for loop over sub_category_links takes the next link
NextLink(i) == i + 1

\* line 147: the loop over the blocks is over, the completion line is printed
Finish ==
    /\ mode = "main" /\ pc = "block"
    /\ pc' = "done"
    /\ completed' = TRUE
    /\ UNCHANGED <<mode, dirs, files, inflight, nreq, crash, failedAt, bi, li, ri,
                   items, catPath, subName, subPath, rowq, curFile, ev, tree, early,
                   calls, arg, res, res2>>

\* lines 91-92: a block without h3.title-highlight is passed over
BlockNoHeading ==
    /\ pc = "block" /\ items < MaxItems
    /\ bi' = bi + 1
    /\ items' = items + 1
    /\ tree' = Append(tree, Block(FALSE, <<>>))
    /\ UNCHANGED <<mode, pc, dirs, files, inflight, nreq, completed, crash, failedAt,
                   li, ri, catPath, subName, subPath, rowq, curFile, ev, early, calls,
                   arg, res, res2>>

\* lines 94-101: the category's directory is made and its links are read
BlockCategory ==
    /\ pc = "block" /\ items < MaxItems
    /\ \E t \in RawTexts :
         LET category_name == sanitize_name(GetText(t))
             category_path == Join(RootPath, category_name)
         IN  /\ catPath' = category_path
             /\ dirs' = makedirs(dirs, category_path)
             /\ tree' = Append(tree, Block(TRUE, category_name))
    /\ li' = 1
    /\ items' = items + 1
    /\ ev' = Event("mkdir_cat", bi, 0, 0)
    /\ pc' = "link"
    /\ UNCHANGED <<mode, files, inflight, nreq, completed, crash, failedAt, bi, ri,
                   subName, subPath, rowq, curFile, early, calls, arg, res, res2>>

\* line 103: the loop over the links of the block is over
EndLinks ==
    /\ pc = "link"
    /\ bi' = bi + 1
    /\ pc' = "block"
    /\ UNCHANGED <<mode, dirs, files, inflight, nreq, completed, crash, failedAt, li,
                   ri, items, catPath, subName, subPath, rowq, curFile, ev, tree, early,
                   calls, arg, res, res2>>

\* lines 104-105: sub_cat_link['href'] of an anchor without href raises KeyError
LinkNoHref ==
    /\ pc = "link" /\ items < MaxItems
    /\ \E t \in RawTexts :
         LET sub_category_name == sanitize_name(GetText(t))
         IN  /\ subName' = sub_category_name
             /\ tree' = AddSub(tree, Sub(sub_category_name, <<>>, "no_href"))
    /\ items' = items + 1
    /\ crash' = "KeyError"
    /\ pc' = "crashed"
    /\ UNCHANGED <<mode, dirs, files, inflight, nreq, completed, failedAt, bi, li, ri,
                   catPath, subPath, rowq, curFile, ev, early, calls, arg, res, res2>>

\* lines 104-108: the sub-category's directory is made
LinkMkdir ==
    /\ pc = "link" /\ items < MaxItems
    /\ \E t \in RawTexts :
         LET sub_category_name == sanitize_name(GetText(t))
             sub_category_path == Join(catPath, sub_category_name)
         IN  /\ subName' = sub_category_name
             /\ subPath' = sub_category_path
             /\ dirs' = makedirs(dirs, sub_category_path)
             /\ tree' = AddSub(tree, Sub(sub_category_name, sub_category_path, "pending"))
    /\ items' = items + 1
    /\ ev' = Event("mkdir_sub", bi, li, 0)
    /\ pc' = "visit_sub"
    /\ UNCHANGED <<mode, files, inflight, nreq, completed, crash, failedAt, bi, li, ri,
                   catPath, rowq, curFile, early, calls, arg, res, res2>>

\* line 111, get_soup line 24: the sub-category page is asked for
VisitSub ==
    /\ pc = "visit_sub"
    /\ Send("sub")
    /\ ev' = Event("fetch_sub", bi, li, 0)
    /\ pc' = "await_sub"
    /\ UNCHANGED <<mode, dirs, files, completed, crash, failedAt, bi, li, ri, items,
                   catPath, subName, subPath, rowq, curFile, tree, early, calls, arg,
                   res, res2>>

\* a mutant of AfterSubFetch: the continue is missing
AfterSubFetch_NoContinue(ok) == "save_desc"

\* line 112: "if not sub_category_soup: continue"
AfterSubFetch(ok) == IF ok THEN "save_desc" ELSE "link"

\* lines 24-29 and 112: the sub-category page arrives or not
SubResponse ==
    /\ pc = "await_sub"
    /\ Answered
    /\ \E ok \in BOOLEAN :
         /\ pc' = AfterSubFetch(ok)
         /\ li' = IF AfterSubFetch(ok) = "link" THEN NextLink(li) ELSE li
         /\ tree' = SetSt(tree, IF ok THEN "fetched" ELSE "fetch_failed")
    /\ UNCHANGED <<mode, dirs, files, nreq, completed, crash, failedAt, bi, ri, items,
                   catPath, subName, subPath, rowq, curFile, ev, early, calls, arg, res,
                   res2>>

\* save_text_file, lines 33-39: what is on disk after the try block
FilesAfterSave(fs, f, w) ==
    CASE w = "ok"          -> WriteFile(fs, f, "full")
      [] w = "write_error" -> WriteFile(fs, f, "partial")
      [] w = "open_error"  -> fs

\* lines 116-127: the description file is written, the table rows are looked up
SaveDesc ==
    /\ pc = "save_desc"
    /\ \E w \in {"ok", "open_error", "write_error"} :
         /\ files' = FilesAfterSave(files, File(subPath, subName, "_description.txt"), w)
         /\ tree' = IF LastSt(tree) = "fetched"
                    THEN SetSt(tree, IF w = "ok" THEN "saved" ELSE "save_failed")
                    ELSE tree
    /\ ev' = Event("write_desc", bi, li, 0)
    /\ ri' = 1
    /\ pc' = "row"
    /\ UNCHANGED <<mode, dirs, inflight, nreq, completed, crash, failedAt, bi, li,
                   items, catPath, subName, subPath, rowq, curFile, early, calls, arg,
                   res, res2>>

----------------------------------------------------------------------------
(* main(): the rows of the product table, and download_pdf *)

\* the four conditions a row must meet for its datasheet to be fetched: it has a
\* Product cell, a Datasheet cell, a sanitized product name that is not empty,
\* and a link with an href in the Datasheet cell
FourConditions(r) ==
    /\ r.hasProduct
    /\ r.datasheet \in {"no_link", "link"}
    /\ Len(sanitize_name(r.product)) > 0
    /\ r.datasheet = "link"

\* a mutant of HasDatasheet: the product name is not tested
HasDatasheet_AnyName(r) == r.hasProduct /\ r.datasheet = "link"

\* lines 137-141: the two cells are there, the name is not empty, the link has an href
HasDatasheet(r) ==
    /\ r.hasProduct /\ r.datasheet # "none"
    /\ sanitize_name(GetText(r.product)) # <<>>
    /\ r.datasheet = "link"

\* a mutant of AlreadyDownloaded: the file is fetched again
AlreadyDownloaded_Never(fs, f) == FALSE

\* line 43: "if os.path.exists(file_path)"
AlreadyDownloaded(fs, f) == exists(fs, f)

\* what a download_pdf call can meet after its request is sent
Outcomes == {"conn_error", "http_error", "open_error", "stream_error", "write_error", "ok"}

\* line 55: the exceptions download_pdf catches are the RequestExceptions
Caught(o) == o \in {"conn_error", "http_error", "stream_error"}

\* a mutant of FilesAfterDownload: the file is opened before the request is sent
FilesAfterDownload_OpenFirst(fs, f, o) ==
    CASE o = "ok"         -> WriteFile(fs, f, "full")
      [] o = "open_error" -> fs
      [] OTHER            -> WriteFile(fs, f, "partial")

\* lines 49-53: what is on disk when download_pdf is left
FilesAfterDownload(fs, f, o) ==
    CASE o \in {"conn_error", "http_error", "open_error"} -> fs
      [] o \in {"stream_error", "write_error"}            -> WriteFile(fs, f, "partial")
      [] o = "ok"                                         -> WriteFile(fs, f, "full")

\* where the control is when download_pdf is left without an exception
Return == IF mode = "main" THEN "row" ELSE "harness"

\* lines 43-49: download_pdf is entered
DownloadEnter(f) ==
    /\ curFile' = f
    /\ IF AlreadyDownloaded(files, f)
       THEN /\ pc' = Return
            /\ inflight' = inflight
            /\ nreq' = nreq
       ELSE /\ Send("pdf")
            /\ pc' = "await_pdf"

\* line 133: the loop over the rows is over
EndRows ==
    /\ pc = "row"
    /\ li' = NextLink(li)
    /\ pc' = "link"
    /\ UNCHANGED <<mode, dirs, files, inflight, nreq, completed, crash, failedAt, bi,
                   ri, items, catPath, subName, subPath, rowq, curFile, ev, tree, early,
                   calls, arg, res, res2>>

\* lines 134-141: a row without a datasheet to fetch is passed over
RowSkip ==
    /\ pc = "row" /\ items < MaxItems
    /\ \E r \in Rows :
         /\ ~HasDatasheet(r)
         /\ rowq' = FourConditions(r)
    /\ items' = items + 1
    /\ ri' = ri + 1
    /\ UNCHANGED <<mode, pc, dirs, files, inflight, nreq, completed, crash, failedAt,
                   bi, li, catPath, subName, subPath, curFile, ev, tree, early, calls,
                   arg, res, res2>>

\* lines 134-145: download_pdf is called for the row
RowDownload ==
    /\ pc = "row" /\ items < MaxItems
    /\ \E r \in Rows :
         /\ HasDatasheet(r)
         /\ rowq' = FourConditions(r)
         /\ LET product_name == sanitize_name(GetText(r.product))
                file_path == File(subPath, product_name, "_datasheet.pdf")
            IN  /\ DownloadEnter(file_path)
                /\ ri' = IF AlreadyDownloaded(files, file_path) THEN ri + 1 ELSE ri
    /\ items' = items + 1
    /\ ev' = Event("download", bi, li, ri)
    /\ UNCHANGED <<mode, dirs, files, completed, crash, failedAt, bi, li, catPath,
                   subName, subPath, tree, early, calls, arg, res, res2>>

\* lines 49-56: the request is answered, the body is written
PdfResponse ==
    /\ pc = "await_pdf"
    /\ Answered
    /\ \E o \in Outcomes :
         /\ files' = FilesAfterDownload(files, curFile, o)
         /\ crash' = IF Caught(o) \/ o = "ok" THEN crash ELSE "OSError"
         /\ pc' = IF Caught(o) \/ o = "ok" THEN Return ELSE "crashed"
         /\ ri' = IF mode = "main" /\ (Caught(o) \/ o = "ok") THEN ri + 1 ELSE ri
         /\ early' = IF mode = "dl"
                     THEN IF o \in {"conn_error", "http_error"}
                          THEN early \cup {curFile}
                          ELSE early \ {curFile}
                     ELSE early
    /\ UNCHANGED <<mode, dirs, nreq, completed, failedAt, bi, li, items, catPath,
                   subName, subPath, rowq, curFile, ev, tree, calls, arg, res, res2>>

Next ==
    \/ Start
    \/ HomeResponse
    \/ ProductsResponse
    \/ Finish
    \/ BlockNoHeading
    \/ BlockCategory
    \/ EndLinks
    \/ LinkNoHref
    \/ LinkMkdir
    \/ VisitSub
    \/ SubResponse
    \/ SaveDesc
    \/ EndRows
    \/ RowSkip
    \/ RowDownload
    \/ PdfResponse

Spec == Init /\ [][Next]_vars

----------------------------------------------------------------------------
(* download_pdf called again and again, in one run or in several, on a    *)
(* directory that may hold files of earlier runs                           *)

HarnessDir == <<MAIN_FOLDER, <<"a">>, <<"a">>>>

HarnessFiles == {File(HarnessDir, n, "_datasheet.pdf") : n \in {<<"a">>, <<"a", "_">>}}

InitDl ==
    /\ mode = "dl"
    /\ pc = "harness"
    /\ dirs = makedirs({}, HarnessDir)
    /\ \E old \in SUBSET HarnessFiles : files = [f \in old |-> "old"]
    /\ InitCommon

\* line 145: download_pdf is called
HarnessCall ==
    /\ mode = "dl" /\ pc = "harness"
    /\ calls < MaxCalls
    /\ \E f \in HarnessFiles : DownloadEnter(f)
    /\ calls' = calls + 1
    /\ UNCHANGED <<mode, dirs, files, completed, crash, failedAt, bi, li, ri, items,
                   catPath, subName, subPath, rowq, ev, tree, early, arg, res, res2>>

\* lines 149-150: after an exception has left main(), the script is run again
Rerun ==
    /\ mode = "dl" /\ pc = "crashed"
    /\ crash' = "none"
    /\ pc' = "harness"
    /\ UNCHANGED <<mode, dirs, files, inflight, nreq, completed, failedAt, bi, li, ri,
                   items, catPath, subName, subPath, rowq, curFile, ev, tree, early,
                   calls, arg, res, res2>>

NextDl ==
    \/ HarnessCall
    \/ PdfResponse
    \/ Rerun

SpecDl == InitDl /\ [][NextDl]_vars

----------------------------------------------------------------------------
(* sanitize_name applied to a string, and to its own result *)

InitSan ==
    /\ mode = "san"
    /\ pc = "san"
    /\ dirs = {}
    /\ files = <<>>
    /\ inflight = {}
    /\ nreq = 0
    /\ completed = FALSE
    /\ crash = "none"
    /\ failedAt = "none"
    /\ bi = 0 /\ li = 0 /\ ri = 0
    /\ items = 0
    /\ catPath = <<>>
    /\ subName = <<>>
    /\ subPath = <<>>
    /\ rowq = FALSE
    /\ curFile = NoFile
    /\ ev = NoEvent
    /\ tree = <<>>
    /\ early = {}
    /\ calls = 0
    /\ arg \in StringsUpTo(MaxLen)
    /\ res = <<>> /\ res2 = <<>>

Sanitize ==
    /\ mode = "san" /\ pc = "san"
    /\ res' = sanitize_name(arg)
    /\ pc' = "sanitized"
    /\ UNCHANGED <<mode, dirs, files, inflight, nreq, completed, crash, failedAt, bi,
                   li, ri, items, catPath, subName, subPath, rowq, curFile, ev, tree,
                   early, calls, arg, res2>>

SanitizeAgain ==
    /\ mode = "san" /\ pc = "sanitized"
    /\ res2' = sanitize_name(res)
    /\ pc' = "twice"
    /\ UNCHANGED <<mode, dirs, files, inflight, nreq, completed, crash, failedAt, bi,
                   li, ri, items, catPath, subName, subPath, rowq, curFile, ev, tree,
                   early, calls, arg, res>>

NextSan ==
    \/ Sanitize
    \/ SanitizeAgain

SpecSan == InitSan /\ [][NextSan]_vars

----------------------------------------------------------------------------
(* The claims *)

DescFile(s) == File(s.dir, s.name, "_description.txt")

\* the links read so far, of all blocks
SubsOf(t) == UNION {{t[i].subs[k] : k \in 1..Len(t[i].subs)} : i \in 1..Len(t)}

\* the description files of a directory
DescFilesIn(d) == {f \in DOMAIN files : f.dir = d /\ f.suffix = "_description.txt"}

\* C1: when a fatal checkpoint has failed the run has stopped: no request is out
\* or was sent after the failing one (one request when the start page or its
\* Products link failed, two when the products page or its container failed), the
\* output root is the only directory, no file was written and the completion line
\* was not printed.
C1_FatalAbort ==
    failedAt # "none" =>
        /\ pc = "aborted"
        /\ inflight = {}
        /\ nreq = (IF failedAt \in {"start_fetch", "nav_link"} THEN 1 ELSE 2)
        /\ dirs = {RootPath}
        /\ DOMAIN files = {}
        /\ ~completed

C1_Witness == failedAt = "start_fetch" /\ pc = "aborted" /\ nreq = 1 /\ dirs = {RootPath}

\* C2: a download_pdf call on a path that holds a file sends no request and
\* leaves every file as it is; a step that sends a request or changes a file
\* belongs to a call made while its path held no file, and changes that path only.
C2_SkipExisting ==
    [][ /\ (calls' = calls + 1 /\ exists(files, curFile'))
            => (nreq' = nreq /\ inflight' = inflight /\ files' = files)
        /\ (nreq' # nreq \/ files' # files)
            => /\ ~exists(files, curFile')
               /\ \A f \in DOMAIN files : f \in DOMAIN files' /\ files'[f] = files[f]
               /\ DOMAIN files' \subseteq DOMAIN files \cup {curFile'} ]_vars

C2_Witness == calls > 1 /\ nreq = 0 /\ exists(files, curFile) /\ files[curFile] = "old"

\* C3: once the four checkpoints have passed, the run ends with the completion
\* line only: no exception leaves main().
C3_RunCompletes == (mode = "main" /\ bi >= 1) => crash = "none"

\* C4: a failure to open or write a file, description or datasheet, does not end
\* the run: no OSError leaves main().
C4_WriteFailuresCaught == mode = "main" => crash # "OSError"

\* C5: download_pdf is called for a row exactly when the row has a Product cell,
\* a Datasheet cell, a sanitized name that is not empty and a link with an href;
\* any other row sends no request, writes no file, makes no directory, and the
\* loop goes on to the next row.
C5_RowTolerance ==
    [][ (pc = "row" /\ items' = items + 1) =>
          /\ (ev' # ev /\ ev'.kind = "download" /\ ev'.r = ri) <=> rowq'
          /\ ~rowq' => /\ nreq' = nreq /\ inflight' = inflight
                       /\ files' = files /\ dirs' = dirs
                       /\ pc' = "row" /\ ri' = ri + 1 /\ crash' = crash ]_vars

\* the second row of a table is fetched after a first row that was passed over
C5_Witness ==
    /\ pc = "await_pdf" /\ ri = 2 /\ nreq = 4 /\ DOMAIN files = {}
    /\ ev = Event("download", 1, 1, 2)

\* C6: the result of sanitize_name holds none of \ / * ? : " < > | and
\* sanitize_name leaves it as it is.
C6_Sanitize ==
    /\ pc \in {"sanitized", "twice"} => \A i \in 1..Len(res) : res[i] \notin Forbidden
    /\ pc = "twice" => res2 = res

C6_Witness ==
    /\ pc = "twice"
    /\ Len(arg) = MaxLen /\ arg[1] \in Whitespace /\ arg[MaxLen] \in Forbidden
    /\ Len(res) = MaxLen - 1

AllHeadings == \A i \in 1..Len(tree) : tree[i].head

DistinctNames ==
    /\ \A i, j \in 1..Len(tree) : i # j => tree[i].name # tree[j].name
    /\ \A i \in 1..Len(tree) : \A k, m \in 1..Len(tree[i].subs) :
          k # m => tree[i].subs[k].name # tree[i].subs[m].name

DotNames == {<<>>, <<".">>, <<".", ".">>}

OrdinaryNames ==
    /\ \A i \in 1..Len(tree) : tree[i].name \notin DotNames
    /\ \A s \in SubsOf(tree) : s.name \notin DotNames

\* the directories under the output root are one per block, named by its heading,
\* and in each one per link of the block, named by the link
Mirror ==
    /\ dirs = {RootPath}
          \cup {<<MAIN_FOLDER, tree[i].name>> : i \in 1..Len(tree)}
          \cup UNION {{<<MAIN_FOLDER, tree[i].name, tree[i].subs[k].name>> :
                          k \in 1..Len(tree[i].subs)} : i \in 1..Len(tree)}
    /\ Cardinality({d \in dirs : Len(d) = 2}) = Len(tree)
    /\ \A i \in 1..Len(tree) :
          Cardinality({d \in dirs : Len(d) = 3 /\ d[2] = tree[i].name}) = Len(tree[i].subs)

\* C7, as claimed: at the completion line, when every block has a heading and the
\* sanitized names are pairwise distinct, the directory tree mirrors the page.
C7_MirrorAsClaimed == (pc = "done" /\ AllHeadings /\ DistinctNames) => Mirror

\* C7, amended: the same, for sanitized names none of which is empty, "." or "..".
C7_Mirror == (pc = "done" /\ AllHeadings /\ DistinctNames /\ OrdinaryNames) => Mirror

\* two categories of one sub-category each, one page fetched and one not
C7_Witness ==
    /\ pc = "done" /\ AllHeadings /\ DistinctNames /\ OrdinaryNames
    /\ Len(tree) = 2
    /\ \E s, t \in SubsOf(tree) : s.st = "fetch_failed" /\ t.st = "saved"
    /\ Cardinality(dirs) = 5

\* C8, as claimed: at the completion line every sub-category directory holds
\* exactly one description file, the one named after the sub-category.
C8_OneDescriptionAsClaimed ==
    pc = "done" => \A s \in SubsOf(tree) : DescFilesIn(s.dir) = {DescFile(s)}

\* C8, amended: at the completion line a sub-category whose page was fetched and
\* whose description was written without error has its description file, and
\* every description file is that of a sub-category whose page was fetched.
C8_Description ==
    pc = "done" =>
        /\ \A s \in SubsOf(tree) :
              s.st = "saved" => exists(files, DescFile(s))
        /\ \A f \in DOMAIN files :
              f.suffix = "_description.txt" =>
                  \E s \in SubsOf(tree) : f = DescFile(s) /\ s.st \in {"saved", "save_failed"}

C8_Witness ==
    /\ pc = "done"
    /\ \E s, t \in SubsOf(tree) :
          /\ s.st = "fetch_failed" /\ DescFilesIn(s.dir) = {}
          /\ t.st = "saved" /\ DescFilesIn(t.dir) = {DescFile(t)}

\* the place of an event in the order of the run
Follows(e, f) ==
    CASE f.kind = "mkdir_cat"  -> e.b < f.b
      [] f.kind = "mkdir_sub"  -> /\ e.b = f.b /\ e.l = f.l - 1
                                  /\ f.l = 1 => e.kind = "mkdir_cat"
      [] f.kind = "fetch_sub"  -> e = Event("mkdir_sub", f.b, f.l, 0)
      [] f.kind = "write_desc" -> e = Event("fetch_sub", f.b, f.l, 0)
      [] f.kind = "download"   -> /\ e.b = f.b /\ e.l = f.l
                                  /\ \/ e.kind = "write_desc"
                                     \/ e.kind = "download" /\ e.r < f.r
      [] OTHER                 -> FALSE

\* C9: at most one request is out at any time, and nothing else is done while it
\* is; the categories are taken in document order, each with all its
\* sub-categories before the next; the sub-categories of a category are taken in
\* document order, each in the order directory, page request, description file,
\* datasheets by table row, all before the next.
C9_Sequencing ==
    /\ [](Cardinality(inflight) <= 1)
    /\ [][ /\ ev' # ev => Follows(ev, ev')
           /\ inflight # {} => (ev' = ev /\ dirs' = dirs) ]_vars

\* a datasheet of the second sub-category of a category is being fetched
C9_Witness == pc = "await_pdf" /\ ev = Event("download", 1, 2, 1)

\* C10: a download that fails before the body is streamed leaves the file
\* system as it was, with no file at the path; while that is the last thing that
\* happened to a path no file is there, and the next download_pdf call on it
\* sends a request.
C10_NoFileBeforeStatus ==
    /\ [](\A f \in early : ~exists(files, f))
    /\ [][ /\ (pc = "await_pdf" /\ curFile \in early')
               => (files' = files /\ ~exists(files', curFile))
           /\ (calls' = calls + 1 /\ curFile' \in early)
               => (nreq' = nreq + 1 /\ pc' = "await_pdf") ]_vars

\* a download is tried again after it failed before the body was streamed
C10_Witness == pc = "await_pdf" /\ curFile \in early /\ calls > 1

====
